---- MODULE Spec2Model ----
(***************************************************************************)
(* Model of tree-init/tree_builder.py: build_conversation_graph and the    *)
(* main block.  The two input files are the variables annSrc and uttSrc;   *)
(* each phase of the function is one action, taken in program order.       *)
(*                                                                         *)
(* JSON values are records tagged by type, so that str() is a conversion   *)
(* (the integer 1 and the string "1" are different values with the same    *)
(* canonical form).  Identifiers and relation codes are TLA+ strings;      *)
(* texts are sequences of one-character strings, which is what the delta   *)
(* check, lower() and strip() look at.  The node attributes user, root,    *)
(* timestamp and score are copied through by the code and are left out.    *)
(* Identifiers are integers or strings, relation codes and texts are       *)
(* strings or absent; other JSON types in these fields are not modelled.   *)
(***************************************************************************)
EXTENDS Integers, Sequences, FiniteSets, TLC

VARIABLES annSrc, uttSrc, pc, raw_annotations, annotation_ids,
          all_utterances_dict, required_node_ids, final_node_ids,
          annotations_for_graph, invalid_relation_count, G, edge_count,
          asn_i, asn_added_count, asn_missing_edge_count, text_mismatch_count,
          result, exported

vars == <<annSrc, uttSrc, pc, raw_annotations, annotation_ids,
          all_utterances_dict, required_node_ids, final_node_ids,
          annotations_for_graph, invalid_relation_count, G, edge_count,
          asn_i, asn_added_count, asn_missing_edge_count, text_mismatch_count,
          result, exported>>

(***************************************************************************)
(* Bounds of the model.                                                    *)
(***************************************************************************)
MaxUtts == 3

MaxAnns == 2

MaxSmallUtts == 2

(***************************************************************************)
(* JSON values.                                                            *)
(***************************************************************************)
None == [t |-> "none"]

JInt(n) == [t |-> "int", n |-> n]

JStr(s) == [t |-> "str", s |-> s]

Digit(d) == <<"0", "1", "2", "3", "4", "5", "6", "7", "8", "9">>[d + 1]

RECURSIVE NatStr(_)
NatStr(n) == IF n < 10 THEN Digit(n) ELSE NatStr(n \div 10) \o Digit(n % 10)

\* Python's str() on a JSON value.
PyStr(v) ==
    CASE v.t = "int" -> IF v.n < 0 THEN "-" \o NatStr(-v.n) ELSE NatStr(v.n)
      [] v.t = "str" -> v.s
      [] v.t = "none" -> "None"

\* Python's truth value of None or a string: an identifier (a TLA+ string)
\* and a text (a sequence of characters).
TruthyId(v) == v.t = "str" /\ v.s # ""

TruthyText(v) == v.t = "str" /\ Len(v.s) > 0

EmptyMap == [x \in {} |-> x]

Put(f, k, v) == [x \in (DOMAIN f) \cup {k} |-> IF x = k THEN v ELSE f[x]]

(***************************************************************************)
(* Items of the two sources.  An item that is not a JSON object has        *)
(* dict = FALSE.  A key that is absent reads as None through .get().       *)
(***************************************************************************)
NotDict == [dict |-> FALSE]

AnnItem(id, rel, txt) ==
    [dict |-> TRUE, id |-> id, reply_relation |-> rel, reply_to_text |-> txt]

\* meta: "absent", "notdict", "empty" (the mapping {}) or "nonempty".
UttItem(id, parent, txt, meta) ==
    [dict |-> TRUE, id |-> id, reply_to |-> parent, text |-> txt, meta |-> meta]

Source(kind, items) == [kind |-> kind, items |-> items]

SeqsUpTo(S, n) == UNION {[1..k -> S] : k \in 0..n}

(***************************************************************************)
(* Loaders.                                                                *)
(***************************************************************************)
\* item.get('id') is evaluated before isinstance(item, dict): an item that is
\* not a dict has no .get and raises AttributeError inside the try block.
ItemGetRaises(item) == ~item.dict

ValidItem(item) == item.dict /\ item.id.t # "none"

Canonical(item) == [item EXCEPT !.id = JStr(PyStr(item.id))]

RECURSIVE ValidItems(_)
ValidItems(items) ==
    IF items = <<>> THEN <<>>
    ELSE IF ValidItem(Head(items))
         THEN <<Canonical(Head(items))>> \o ValidItems(Tail(items))
         ELSE ValidItems(Tail(items))

SeqIds(items) == {items[i].id.s : i \in DOMAIN items}

\* Lines 36-63: [raised, raw, ids].
AnnLoad(src) ==
    IF src.kind \in {"absent", "undecodable"}
    THEN [raised |-> TRUE, raw |-> <<>>, ids |-> {}]
    ELSE IF src.kind # "list"
    THEN [raised |-> FALSE, raw |-> <<>>, ids |-> {}]
    ELSE IF \E i \in DOMAIN src.items : ItemGetRaises(src.items[i])
    THEN [raised |-> TRUE, raw |-> <<>>, ids |-> {}]
    ELSE [raised |-> FALSE, raw |-> ValidItems(src.items),
          ids |-> SeqIds(ValidItems(src.items))]

RECURSIVE DictOf(_)
DictOf(items) ==
    IF items = <<>> THEN EmptyMap
    ELSE LET n == Len(items)
         IN  Put(DictOf(SubSeq(items, 1, n - 1)), items[n].id.s, items[n])

\* Lines 73-93: [failed, dict].
UttLoad(src) ==
    IF src.kind # "list"
    THEN [failed |-> TRUE, dict |-> EmptyMap]
    ELSE IF \E i \in DOMAIN src.items : ItemGetRaises(src.items[i])
    THEN [failed |-> TRUE, dict |-> EmptyMap]
    ELSE [failed |-> FALSE, dict |-> DictOf(ValidItems(src.items))]

EmptyGraph == [nodes |-> EmptyMap, edges |-> EmptyMap]

NoAnnotations == [order |-> <<>>, data |-> EmptyMap]

InitWith(annSources, uttSources) ==
    /\ annSrc \in annSources
    /\ uttSrc \in uttSources
    /\ pc = "load_annotations"
    /\ raw_annotations = <<>>
    /\ annotation_ids = {}
    /\ all_utterances_dict = EmptyMap
    /\ required_node_ids = {}
    /\ final_node_ids = {}
    /\ annotations_for_graph = NoAnnotations
    /\ invalid_relation_count = 0
    /\ G = EmptyGraph
    /\ edge_count = 0
    /\ asn_i = 1
    /\ asn_added_count = 0
    /\ asn_missing_edge_count = 0
    /\ text_mismatch_count = 0
    /\ result = "pending"
    /\ exported = FALSE

\* Mutant: the test for an empty set of annotation IDs is left out.
AnnotationsFatalNoEmptyTest(r) == r.raised

\* Lines 55-67: an exception of the loader, or no annotation ID.
AnnotationsFatal(r) == r.raised \/ r.ids = {}

\* Lines 82-97: a source that is no list, an exception, or no valid record.
UtterancesFatal(r) == r.failed \/ DOMAIN r.dict = {}

ReturnNone ==
    /\ pc' = "main"
    /\ result' = "None"

LoadAnnotations ==
    /\ pc = "load_annotations"
    /\ LET r == AnnLoad(annSrc)
       IN  IF AnnotationsFatal(r)
           THEN /\ ReturnNone
                /\ UNCHANGED <<raw_annotations, annotation_ids>>
           ELSE /\ raw_annotations' = r.raw
                /\ annotation_ids' = r.ids
                /\ pc' = "load_utterances"
                /\ UNCHANGED result
    /\ UNCHANGED <<annSrc, uttSrc, all_utterances_dict, required_node_ids,
                   final_node_ids, annotations_for_graph,
                   invalid_relation_count, G, edge_count, asn_i,
                   asn_added_count, asn_missing_edge_count,
                   text_mismatch_count, exported>>

LoadUtterances ==
    /\ pc = "load_utterances"
    /\ LET r == UttLoad(uttSrc)
       IN  IF UtterancesFatal(r)
           THEN /\ ReturnNone
                /\ UNCHANGED all_utterances_dict
           ELSE /\ all_utterances_dict' = r.dict
                /\ pc' = "select_nodes"
                /\ UNCHANGED result
    /\ UNCHANGED <<annSrc, uttSrc, raw_annotations, annotation_ids,
                   required_node_ids, final_node_ids, annotations_for_graph,
                   invalid_relation_count, G, edge_count, asn_i,
                   asn_added_count, asn_missing_edge_count,
                   text_mismatch_count, exported>>

(***************************************************************************)
(* Node selection, lines 101-123.                                          *)
(***************************************************************************)
RequiredNodeIds(annIds, utts) == annIds \cap DOMAIN utts

HasParentRef(u) == u.reply_to.t # "none"

\* Mutant: the parents of the parents are pulled in as well.
ParentIdsWithGrandparents(required, utts) ==
    LET up(S) == {PyStr(utts[n].reply_to) :
                    n \in {m \in S : /\ HasParentRef(utts[m])
                                      /\ PyStr(utts[m].reply_to) \in DOMAIN utts}}
    IN  up(required) \cup up(up(required))

ParentIdsToAdd(required, utts) ==
    {PyStr(utts[n].reply_to) :
        n \in {m \in required : /\ HasParentRef(utts[m])
                                 /\ PyStr(utts[m].reply_to) \in DOMAIN utts}}

FinalNodeIds(required, utts) == required \cup ParentIdsToAdd(required, utts)

UtterancesForGraph(final, utts) == [n \in final |-> utts[n]]

DetermineRequiredNodes ==
    /\ pc = "select_nodes"
    /\ required_node_ids' = RequiredNodeIds(annotation_ids, all_utterances_dict)
    /\ final_node_ids' = FinalNodeIds(required_node_ids', all_utterances_dict)
    /\ pc' = "prepare_annotations"
    /\ UNCHANGED <<annSrc, uttSrc, raw_annotations, annotation_ids,
                   all_utterances_dict, annotations_for_graph,
                   invalid_relation_count, G, edge_count, asn_i,
                   asn_added_count, asn_missing_edge_count,
                   text_mismatch_count, result, exported>>

(***************************************************************************)
(* Preparing the annotations, lines 125-143.                               *)
(***************************************************************************)
relation_map == [a |-> "attack", s |-> "support", n |-> "neutral"]

\* relation_map.get(raw_relation)
RelationMapGet(raw) ==
    IF raw.t = "str" /\ raw.s \in DOMAIN relation_map
    THEN JStr(relation_map[raw.s])
    ELSE None

\* One iteration of the loop: a dict keeps a key at its first insertion place.
PrepareOne(acc, item, final) ==
    IF item.id.s \notin final THEN acc
    ELSE LET mapped == RelationMapGet(item.reply_relation)
             kept   == IF mapped.t # "none"
                       THEN [item EXCEPT !.reply_relation = mapped]
                       ELSE item
             order  == IF item.id.s \in DOMAIN acc.afg.data
                       THEN acc.afg.order
                       ELSE Append(acc.afg.order, item.id.s)
         IN  [afg |-> [order |-> order,
                       data |-> Put(acc.afg.data, item.id.s, kept)],
              invalid |-> IF mapped.t # "none" THEN acc.invalid
                          ELSE acc.invalid + 1]

RECURSIVE PrepareAll(_, _)
PrepareAll(items, final) ==
    IF items = <<>> THEN [afg |-> NoAnnotations, invalid |-> 0]
    ELSE LET n == Len(items)
         IN  PrepareOne(PrepareAll(SubSeq(items, 1, n - 1), final),
                        items[n], final)

PrepareAnnotations ==
    /\ pc = "prepare_annotations"
    /\ LET r == PrepareAll(raw_annotations, final_node_ids)
       IN  /\ annotations_for_graph' = r.afg
           /\ invalid_relation_count' = r.invalid
    /\ pc' = "add_nodes"
    /\ UNCHANGED <<annSrc, uttSrc, raw_annotations, annotation_ids,
                   all_utterances_dict, required_node_ids, final_node_ids, G,
                   edge_count, asn_i, asn_added_count, asn_missing_edge_count,
                   text_mismatch_count, result, exported>>

(***************************************************************************)
(* Texts: lower(), strip() and the substring test.                         *)
(***************************************************************************)
DeltaGlyph == "u2206"

LowerChar(c) ==
    CASE c = "D" -> "d" [] c = "E" -> "e" [] c = "L" -> "l"
      [] c = "T" -> "t" [] c = "A" -> "a" [] c = "H" -> "h"
      [] c = "I" -> "i" [] OTHER -> c

Lower(text) == [i \in DOMAIN text |-> LowerChar(text[i])]

Contains(text, pat) ==
    \E i \in 1..(Len(text) - Len(pat) + 1) :
        SubSeq(text, i, i + Len(pat) - 1) = pat

Whitespace == {" ", "\t", "\n"}

RECURSIVE LStrip(_)
LStrip(text) ==
    IF text # <<>> /\ Head(text) \in Whitespace THEN LStrip(Tail(text))
    ELSE text

RECURSIVE RStrip(_)
RStrip(text) ==
    IF text # <<>> /\ text[Len(text)] \in Whitespace
    THEN RStrip(SubSeq(text, 1, Len(text) - 1))
    ELSE text

Strip(text) == RStrip(LStrip(text))

(***************************************************************************)
(* Building the graph: nodes, lines 148-173.                               *)
(***************************************************************************)
\* str(utt_data.get('text', ''))
TextOf(u) == IF u.text.t = "none" THEN <<>> ELSE u.text.s

\* 'meta' in utt_data and isinstance(utt_data['meta'], dict)
MetaIsDict(u) == u.meta \in {"empty", "nonempty"}

\* Mutant: the command is looked for without lower().
DeltaAwardedCaseSensitive(u) ==
    /\ MetaIsDict(u)
    /\ \/ Contains(TextOf(u), <<DeltaGlyph>>)
       \/ Contains(TextOf(u), <<"!", "d", "e", "l", "t", "a">>)

DeltaAwarded(u) ==
    /\ MetaIsDict(u)
    /\ \/ Contains(TextOf(u), <<DeltaGlyph>>)
       \/ Contains(Lower(TextOf(u)), <<"!", "d", "e", "l", "t", "a">>)

NodeAttrs(u) ==
    [text |-> TextOf(u), delta |-> IF DeltaAwarded(u) THEN "True" ELSE "False"]

\* G.add_node for every id of ids.
GAddNodes(g, ids, ufg) ==
    [g EXCEPT !.nodes = [n \in (DOMAIN g.nodes) \cup ids |->
                            IF n \in ids THEN NodeAttrs(ufg[n])
                            ELSE g.nodes[n]]]

AddNodes ==
    /\ pc = "add_nodes"
    /\ G' = GAddNodes(G, final_node_ids,
                      UtterancesForGraph(final_node_ids, all_utterances_dict))
    /\ pc' = "add_edges"
    /\ UNCHANGED <<annSrc, uttSrc, raw_annotations, annotation_ids,
                   all_utterances_dict, required_node_ids, final_node_ids,
                   annotations_for_graph, invalid_relation_count, edge_count,
                   asn_i, asn_added_count, asn_missing_edge_count,
                   text_mismatch_count, result, exported>>

(***************************************************************************)
(* Building the graph: edges, lines 175-187.                               *)
(***************************************************************************)
\* Mutant: the edge is added without looking whether the parent is a node.
EdgesToAddUnchecked(final, ufg) ==
    {<<PyStr(ufg[n].reply_to), n>> : n \in {m \in final : HasParentRef(ufg[m])}}

EdgesToAdd(final, ufg) ==
    {<<PyStr(ufg[n].reply_to), n>> :
        n \in {m \in final : /\ HasParentRef(ufg[m])
                              /\ PyStr(ufg[m].reply_to) \in final}}

\* Mutant: an undirected container, every edge is there in both directions.
GAddEdgesUndirected(g, es, rel) ==
    LET both == es \cup {<<e[2], e[1]>> : e \in es}
    IN  [nodes |-> g.nodes,
         edges |-> [e \in (DOMAIN g.edges) \cup both |-> rel]]

\* G.add_edge(u, v, relation=rel) for every <<u, v>> of es: an end point that
\* is not yet a node becomes one, with no attributes.
GAddEdges(g, es, rel) ==
    LET ends == {e[1] : e \in es} \cup {e[2] : e \in es}
    IN  [nodes |-> [n \in (DOMAIN g.nodes) \cup ends |->
                       IF n \in DOMAIN g.nodes THEN g.nodes[n] ELSE EmptyMap],
         edges |-> [e \in (DOMAIN g.edges) \cup es |->
                       IF e \in es THEN rel ELSE g.edges[e]]]

AddEdges ==
    /\ pc = "add_edges"
    /\ LET es == EdgesToAdd(final_node_ids,
                    UtterancesForGraph(final_node_ids, all_utterances_dict))
       IN  /\ G' = GAddEdges(G, es, "reply")
           /\ edge_count' = Cardinality(es)
    /\ pc' = "apply_asn"
    /\ UNCHANGED <<annSrc, uttSrc, raw_annotations, annotation_ids,
                   all_utterances_dict, required_node_ids, final_node_ids,
                   annotations_for_graph, invalid_relation_count, asn_i,
                   asn_added_count, asn_missing_edge_count,
                   text_mismatch_count, result, exported>>

(***************************************************************************)
(* Applying the relations, lines 189-228: one step per annotation kept,    *)
(* in the order of the dict, then the return of the graph.                 *)
(***************************************************************************)
AsnRelations == {"attack", "support", "neutral"}

\* relation not in ['attack', 'support', 'neutral']
SkipsAnnotation(ann) ==
    ~(ann.reply_relation.t = "str" /\ ann.reply_relation.s \in AsnRelations)

\* str(parent_id_raw) if parent_id_raw is not None else None
ParentIdOf(u) == IF HasParentRef(u) THEN JStr(PyStr(u.reply_to)) ELSE None

\* if parent_id and G.has_edge(parent_id, ann_id)
EdgeFound(g, parent_id, ann_id) ==
    TruthyId(parent_id) /\ <<parent_id.s, ann_id>> \in DOMAIN g.edges

TextMismatch(g, parent_id, ann) ==
    /\ TruthyText(ann.reply_to_text)
    /\ Strip(g.nodes[parent_id.s].text) # Strip(ann.reply_to_text.s)

ApplyASN ==
    /\ pc = "apply_asn"
    /\ IF asn_i > Len(annotations_for_graph.order)
       THEN /\ pc' = "main"
            /\ result' = "graph"
            /\ UNCHANGED <<G, asn_i, asn_added_count, asn_missing_edge_count,
                           text_mismatch_count>>
       ELSE LET ann_id == annotations_for_graph.order[asn_i]
                ann    == annotations_for_graph.data[ann_id]
                parent_id == ParentIdOf(all_utterances_dict[ann_id])
            IN  /\ asn_i' = asn_i + 1
                /\ UNCHANGED <<pc, result>>
                /\ IF SkipsAnnotation(ann)
                   THEN UNCHANGED <<G, asn_added_count, asn_missing_edge_count,
                                    text_mismatch_count>>
                   ELSE IF EdgeFound(G, parent_id, ann_id)
                   THEN /\ text_mismatch_count' =
                              IF TextMismatch(G, parent_id, ann)
                              THEN text_mismatch_count + 1
                              ELSE text_mismatch_count
                        /\ G' = [G EXCEPT !.edges[<<parent_id.s, ann_id>>] =
                                             ann.reply_relation.s]
                        /\ asn_added_count' = asn_added_count + 1
                        /\ UNCHANGED asn_missing_edge_count
                   ELSE /\ asn_missing_edge_count' = asn_missing_edge_count + 1
                        /\ UNCHANGED <<G, asn_added_count, text_mismatch_count>>
    /\ UNCHANGED <<annSrc, uttSrc, raw_annotations, annotation_ids,
                   all_utterances_dict, required_node_ids, final_node_ids,
                   annotations_for_graph, invalid_relation_count, edge_count,
                   exported>>

(***************************************************************************)
(* The main block, lines 244-271: "if graph:" is false for None and for a  *)
(* graph with no node.                                                     *)
(***************************************************************************)
GraphTruthy(res, g) == res = "graph" /\ DOMAIN g.nodes # {}

MainBlock ==
    /\ pc = "main"
    /\ exported' = GraphTruthy(result, G)
    /\ pc' = "exit"
    /\ UNCHANGED <<annSrc, uttSrc, raw_annotations, annotation_ids,
                   all_utterances_dict, required_node_ids, final_node_ids,
                   annotations_for_graph, invalid_relation_count, G,
                   edge_count, asn_i, asn_added_count, asn_missing_edge_count,
                   text_mismatch_count, result>>

Next ==
    \/ LoadAnnotations
    \/ LoadUtterances
    \/ DetermineRequiredNodes
    \/ PrepareAnnotations
    \/ AddNodes
    \/ AddEdges
    \/ ApplyASN
    \/ MainBlock

(***************************************************************************)
(* Inputs.  Every specification runs the same program; they differ in the  *)
(* files it is given.                                                      *)
(***************************************************************************)
Hi == <<"h", "i">>

ListSources(items, n) == {Source("list", q) : q \in SeqsUpTo(items, n)}

BadSources == {Source(k, <<>>) : k \in {"absent", "undecodable", "notlist"}}

\* Reply structure: integer and string identifiers, chains, loops, parents
\* that are not in the corpus, identifiers given twice.
NodeUttItems ==
    {UttItem(id, p, JStr(Hi), "absent") :
        id \in {JInt(1), JStr("2"), JStr("3")},
        p \in {None, JStr("1"), JInt(2)}}

NodeAnnItems ==
    {AnnItem(id, JStr("a"), None) : id \in {JInt(2), JStr("3")}}

Init ==
    InitWith(ListSources(NodeAnnItems, MaxAnns),
             ListSources(NodeUttItems, MaxUtts))

Spec == Init /\ [][Next]_vars

\* Relation binding: every kind of relation code, comparison texts, the
\* empty string as an identifier.
BindUttItems ==
    {UttItem(id, p, JStr(Hi), "absent") :
        id \in {JStr(""), JStr("1")},
        p \in {None, JStr(""), JStr("1"), JStr("7")}}

BindCodes ==
    {None, JStr("a"), JStr("s"), JStr("n"), JStr("x"), JStr("attack")}

BindTexts == {None, JStr(<<" ", "h", "i", "\n">>), JStr(<<"n", "o">>)}

BindAnnItems ==
    {AnnItem(id, rel, txt) :
        id \in {JStr(""), JStr("1")}, rel \in BindCodes, txt \in BindTexts}

InitBind ==
    InitWith(ListSources(BindAnnItems, MaxAnns),
             ListSources(BindUttItems, MaxSmallUtts))

SpecBind == InitBind /\ [][Next]_vars

\* Loading: sources that are absent, undecodable or not a list, items that
\* are not mappings or have no identifier.
LoadAnnItems ==
    {NotDict,
     AnnItem(None, JStr("a"), None),
     AnnItem(JInt(1), JStr("a"), None),
     AnnItem(JStr("2"), JStr("a"), JStr(<<"n", "o">>)),
     AnnItem(JStr("2"), JStr("x"), None)}

LoadUttItems ==
    {NotDict,
     UttItem(None, None, JStr(Hi), "absent"),
     UttItem(JStr("1"), None, JStr(Hi), "absent"),
     UttItem(JStr("2"), JInt(1), JStr(Hi), "absent")}

InitLoad ==
    InitWith(ListSources(LoadAnnItems, MaxAnns) \cup BadSources,
             ListSources(LoadUttItems, MaxUtts) \cup BadSources)

SpecLoad == InitLoad /\ [][Next]_vars

\* Delta detection: texts with and without a marker, every kind of metadata.
DeltaTexts ==
    {None,
     JStr(<<DeltaGlyph>>),
     JStr(<<"!", "d", "e", "l", "t", "a">>),
     JStr(<<"h", "!", "D", "e", "L", "T", "A">>),
     JStr(<<"d", "e", "l", "t", "a">>)}

MetaKinds == {"absent", "notdict", "empty", "nonempty"}

DeltaUttItems ==
    {UttItem(id, None, txt, meta) :
        id \in {JStr("1"), JInt(2)}, txt \in DeltaTexts, meta \in MetaKinds}

DeltaAnnotations ==
    <<AnnItem(JInt(1), JStr("a"), None), AnnItem(JStr("2"), JStr("s"), None)>>

InitDelta ==
    InitWith({Source("list", DeltaAnnotations)},
             ListSources(DeltaUttItems, MaxSmallUtts))

SpecDelta == InitDelta /\ [][Next]_vars

(***************************************************************************)
(* What the properties below read off the inputs and the graph.            *)
(***************************************************************************)
GraphBuilt == result = "graph"

Returned == pc \in {"main", "exit"}

Nodes == DOMAIN G.nodes

Edges == DOMAIN G.edges

Corpus == all_utterances_dict

CorpusIds == DOMAIN all_utterances_dict

\* p is the canonical form of c's reply-to reference.
RepliesTo(c, p) ==
    Corpus[c].reply_to.t # "none" /\ PyStr(Corpus[c].reply_to) = p

AsnCodes == {"a", "s", "n"}

ValidCode(rel) == rel.t = "str" /\ rel.s \in AsnCodes

\* The places of the annotation list whose target is c.
AnnPlaces(c) ==
    {i \in DOMAIN annSrc.items :
        ValidItem(annSrc.items[i]) /\ PyStr(annSrc.items[i].id) = c}

LastAnn(c) ==
    annSrc.items[CHOOSE i \in AnnPlaces(c) : \A j \in AnnPlaces(c) : j <= i]

\* The targets whose deciding (latest) annotation has a code of {a, s, n}.
ValidTargets ==
    {c \in final_node_ids :
        AnnPlaces(c) # {} /\ ValidCode(LastAnn(c).reply_relation)}

Compose(R) ==
    R \cup {<<q[1][1], q[2][2]>> : q \in {r \in R \X R : r[1][2] = r[2][1]}}

RECURSIVE Closure(_)
Closure(R) == IF Compose(R) = R THEN R ELSE Closure(Compose(R))

HasCycle(R) == \E e \in Closure(R) : e[1] = e[2]

(***************************************************************************)
(* C1: the node set of the graph is exactly the annotated utterances that  *)
(* are in the corpus together with those of their reply-to parents that    *)
(* are in the corpus; every node is a key of the utterance mapping, and no *)
(* parent of a parent is a node unless it is one for that reason.          *)
(***************************************************************************)
C1_NodeSetExact ==
    (pc \in {"add_edges", "apply_asn"} \/ GraphBuilt) =>
        LET required == {a \in CorpusIds : a \in annotation_ids}
            parents  == {p \in CorpusIds : \E c \in required : RepliesTo(c, p)}
        IN  /\ Nodes = required \cup parents
            /\ Nodes \subseteq CorpusIds

\* Corpus 1 <- 2 <- 3, annotation on 3 only: the nodes are 2 and 3.
C1_Witness ==
    /\ pc = "exit" /\ GraphBuilt
    /\ annotation_ids = {"3"}
    /\ CorpusIds = {"1", "2", "3"}
    /\ RepliesTo("3", "2") /\ RepliesTo("2", "1")
    /\ Corpus["1"].reply_to.t = "none"
    /\ Nodes = {"2", "3"}

(***************************************************************************)
(* C2: from the end of edge construction on, through every step of the     *)
(* relation binding, <<p, c>> is an edge iff c is a node of the final set  *)
(* whose reply-to reference is present with canonical form p, and p is in  *)
(* the final set; so a node has at most one incoming edge.                 *)
(***************************************************************************)
C2_EdgeSetExact ==
    (pc = "apply_asn" \/ GraphBuilt) =>
        /\ Edges = {e \in CorpusIds \X CorpusIds :
                        /\ e[2] \in final_node_ids
                        /\ RepliesTo(e[2], e[1])
                        /\ e[1] \in final_node_ids}
        /\ \A c \in Nodes : Cardinality({e \in Edges : e[2] = c}) <= 1

\* The binding has overwritten a relation; one node has its parent outside
\* the final set and so no incoming edge.
C2_Witness ==
    /\ pc = "exit" /\ GraphBuilt
    /\ asn_added_count >= 1
    /\ \E c \in Nodes :
          /\ Corpus[c].reply_to.t # "none"
          /\ PyStr(Corpus[c].reply_to) \in CorpusIds \ final_node_ids
          /\ \A e \in Edges : e[2] # c

(***************************************************************************)
(* C3 (as claimed): an annotation whose code is not one of a, s, n takes   *)
(* part in no relation assignment: an edge has a relation other than       *)
(* "reply" only if an annotation with a code of {a, s, n} targets its      *)
(* child, the applied counter counts only such targets, and the invalid    *)
(* counter counts the annotations with any other code.                     *)
(***************************************************************************)
C3_InvalidCodeInert ==
    (pc = "exit" /\ GraphBuilt) =>
        /\ \A e \in Edges :
              /\ G.edges[e] \in {"reply"} \cup AsnRelations
              /\ G.edges[e] # "reply" =>
                    \E i \in AnnPlaces(e[2]) :
                        ValidCode(annSrc.items[i].reply_relation)
        /\ asn_added_count <=
              Cardinality({c \in final_node_ids :
                  \E i \in AnnPlaces(c) :
                      ValidCode(annSrc.items[i].reply_relation)})
        /\ invalid_relation_count =
              Cardinality({i \in DOMAIN annSrc.items :
                  /\ ValidItem(annSrc.items[i])
                  /\ PyStr(annSrc.items[i].id) \in final_node_ids
                  /\ ~ValidCode(annSrc.items[i].reply_relation)})

(***************************************************************************)
(* C4 (as claimed): when the deciding annotation of a target has a code of *)
(* {a, s, n} and the edge from the target's parent exists, whatever string *)
(* the parent's identifier is, the edge ends with the mapped relation.     *)
(***************************************************************************)
C4_ValidCodeApplied ==
    (pc = "exit" /\ GraphBuilt) =>
        \A c \in ValidTargets :
            \A e \in Edges :
                (e[2] = c /\ RepliesTo(c, e[1])) =>
                    G.edges[e] = relation_map[LastAnn(c).reply_relation.s]

(***************************************************************************)
(* C5 (as claimed): a malformed item never aborts the run: when both       *)
(* sources are lists and each holds a well-formed item, a graph is         *)
(* returned, and the well-formed annotations are the ones loaded.          *)
(***************************************************************************)
C5_MalformedItemSkipped ==
    (/\ pc = "exit"
     /\ annSrc.kind = "list" /\ uttSrc.kind = "list"
     /\ \E i \in DOMAIN annSrc.items : ValidItem(annSrc.items[i])
     /\ \E i \in DOMAIN uttSrc.items : ValidItem(uttSrc.items[i]))
    => /\ GraphBuilt
       /\ annotation_ids =
             {PyStr(annSrc.items[i].id) :
                 i \in {j \in DOMAIN annSrc.items : ValidItem(annSrc.items[j])}}

(***************************************************************************)
(* C6: with a fatal load condition (a source absent, undecodable or no     *)
(* list, no annotation ID, no valid utterance record) the function returns *)
(* None from a loader, the graph has no node and no edge, and the exporter *)
(* is not called; and once an unknown code, a missing edge or a text       *)
(* mismatch has been counted, None is not what is returned.                *)
(***************************************************************************)
FatalLoad ==
    \/ annSrc.kind # "list"
    \/ \A i \in DOMAIN annSrc.items : ~ValidItem(annSrc.items[i])
    \/ uttSrc.kind # "list"
    \/ \A i \in DOMAIN uttSrc.items : ~ValidItem(uttSrc.items[i])

C6_FatalLoadNoGraph ==
    /\ FatalLoad =>
          /\ pc \in {"load_annotations", "load_utterances", "main", "exit"}
          /\ Returned => result = "None"
          /\ Nodes = {} /\ Edges = {}
          /\ ~exported
    /\ result = "None" => (Nodes = {} /\ Edges = {} /\ ~exported)
    /\ (invalid_relation_count + asn_missing_edge_count + text_mismatch_count > 0)
          => (result # "None" /\ (Returned => GraphBuilt))

\* A list of annotations none of which has an identifier.
C6_Witness ==
    /\ pc = "exit"
    /\ annSrc.kind = "list" /\ Len(annSrc.items) > 0
    /\ \A i \in DOMAIN annSrc.items : annSrc.items[i].dict
    /\ uttSrc.kind = "list"
    /\ \E i \in DOMAIN uttSrc.items : ValidItem(uttSrc.items[i])
    /\ FatalLoad
    /\ result = "None" /\ ~exported

(***************************************************************************)
(* C7: the delta attribute of a node.  MarkerTexts are the texts of the    *)
(* inputs that hold the glyph or, in any case, the command.                *)
(***************************************************************************)
MarkerTexts ==
    {JStr(<<DeltaGlyph>>),
     JStr(<<"!", "d", "e", "l", "t", "a">>),
     JStr(<<"h", "!", "D", "e", "L", "T", "A">>)}

NodesBuilt == pc \in {"add_edges", "apply_asn"} \/ GraphBuilt

\* C7 (as claimed): delta is "True" iff the record has a non-empty metadata
\* mapping and its text holds a marker.
C7_DeltaNeedsNonEmptyMeta ==
    NodesBuilt =>
        \A n \in Nodes :
            G.nodes[n].delta = "True" <=>
                (Corpus[n].meta = "nonempty" /\ Corpus[n].text \in MarkerTexts)

\* C7 (amended): delta is "True" iff the record has a metadata mapping, empty
\* or not, and its text holds a marker; it is "False" otherwise.
C7_DeltaNeedsMetaMapping ==
    NodesBuilt =>
        \A n \in Nodes :
            /\ G.nodes[n].delta \in {"True", "False"}
            /\ G.nodes[n].delta = "True" <=>
                  (/\ Corpus[n].meta \in {"empty", "nonempty"}
                   /\ Corpus[n].text \in MarkerTexts)

\* An upper-case command under an empty metadata mapping, and a marker under
\* no metadata at all.
C7_Witness ==
    /\ pc = "exit" /\ GraphBuilt
    /\ \E n \in Nodes :
          /\ Corpus[n].meta = "empty"
          /\ Corpus[n].text = JStr(<<"h", "!", "D", "e", "L", "T", "A">>)
          /\ G.nodes[n].delta = "True"
    /\ \E n \in Nodes :
          /\ Corpus[n].meta = "absent"
          /\ Corpus[n].text \in MarkerTexts
          /\ G.nodes[n].delta = "False"

(***************************************************************************)
(* C8: cycles.  ReplyEdges is the reply-to relation of the corpus between  *)
(* the nodes of the graph.                                                 *)
(***************************************************************************)
ReplyEdges == {e \in Nodes \X Nodes : RepliesTo(e[2], e[1])}

\* C8 (as claimed): for every input the graph has no self-loop and no
\* directed cycle.
C8_AlwaysAcyclic ==
    GraphBuilt => ~HasCycle(Edges)

\* C8 (amended): the graph has a self-loop exactly at the nodes whose reply-to
\* reference names themselves, and a directed cycle exactly when the reply-to
\* references between its nodes form one; with reply-to references free of
\* loops it is a forest: no self-loop, no cycle, at most one incoming edge.
C8_AcyclicIffRepliesAcyclic ==
    GraphBuilt =>
        /\ \A n \in Nodes : <<n, n>> \in Edges <=> RepliesTo(n, n)
        /\ HasCycle(Edges) <=> HasCycle(ReplyEdges)
        /\ ~HasCycle(ReplyEdges) =>
              \A c \in Nodes : Cardinality({e \in Edges : e[2] = c}) <= 1

\* A chain of three nodes and two edges, free of loops.
C8_Witness ==
    /\ pc = "exit" /\ GraphBuilt
    /\ Nodes = {"1", "2", "3"}
    /\ Edges = {<<"1", "2">>, <<"2", "3">>}
    /\ ~HasCycle(Edges)

(***************************************************************************)
(* C9 (as claimed): with two or more annotations on one target, the latest *)
(* alone decides: the edge into the target ends with the relation mapped   *)
(* from its code, or with "reply" if that code is not one of a, s, n, and  *)
(* the target is counted at most once.                                     *)
(***************************************************************************)
C9_LastAnnotationWins ==
    (pc = "exit" /\ GraphBuilt) =>
        /\ \A c \in final_node_ids :
              Cardinality(AnnPlaces(c)) >= 2 =>
                  \A e \in Edges :
                      e[2] = c =>
                          G.edges[e] =
                              IF ValidCode(LastAnn(c).reply_relation)
                              THEN relation_map[LastAnn(c).reply_relation.s]
                              ELSE "reply"
        /\ asn_added_count + asn_missing_edge_count <=
              Cardinality({c \in final_node_ids : AnnPlaces(c) # {}})

(***************************************************************************)
(* C10 (as claimed): every target whose deciding annotation has a code of  *)
(* {a, s, n} is counted once, as missing exactly when it has no reply-to   *)
(* reference or no edge from its parent, as applied otherwise; applied is  *)
(* the number of edges whose relation is not "reply".                      *)
(***************************************************************************)
C10_CountersAccount ==
    (pc = "exit" /\ GraphBuilt) =>
        LET missing == {c \in ValidTargets : \A e \in Edges : e[2] # c}
        IN  /\ asn_missing_edge_count = Cardinality(missing)
            /\ asn_added_count = Cardinality(ValidTargets \ missing)
            /\ asn_added_count =
                  Cardinality({e \in Edges : G.edges[e] # "reply"})

====
